---- MODULE Spec2Model ----
(***************************************************************************)
(* Model of the classification-and-organization engine of the document     *)
(* organiser: the identifier allocator (.jd_ids.json), the duplicate       *)
(* index (.hash_index.json), the organizer (organize_file), the ingest     *)
(* loop (process_once / watch_folder / process_file), the files:move and   *)
(* files:delete handlers, and the keyword categorization backends.         *)
(*                                                                         *)
(* Python strings are modelled as sequences of one-character strings so    *)
(* that concatenation, formatting and splitting are computed, not assumed. *)
(***************************************************************************)
EXTENDS Integers, Sequences, FiniteSets, TLC

VARIABLES
    jd_ids,        \* content of .jd_ids.json: category -> [next_id, mappings]
    calls,         \* allocator: set of [cat, issuer, year, ret] returned so far
    issued,        \* allocator: sequence of [cat, key, id] in issuance order
    last,          \* the last operation and what it returned
    inbox,         \* inbox directory: file name -> content
    library,       \* organized documents: <<area, category, filename>> -> content
    sidecars,      \* .meta.json files: document path -> metadata
    failed,        \* <output>/_failed: file name -> content
    hash_index,    \* content of .hash_index.json: hash -> path
    search_index,  \* content of .search_index.json: sequence of entries
    jdex_index,    \* entries appended to 00.00 Index.md
    processed_db,  \* content of .processed_files.json: hash -> entry
    loop,          \* ingest loop: driver, pending files, in-memory ledger
    placed,        \* contents put into the inbox and not deleted by the user
    ndeleted,      \* number of files:delete requests served
    quiet,         \* state saved when an undisturbed process_once completed
    request,       \* categorization: text, taxonomy, provider and environment
    jd_data,       \* JDSystem._data: areas, meta and evolution history
    jdex_json,     \* content of jdex.json
    now            \* the clock read by datetime.now()

vars == <<jd_ids, calls, issued, last, inbox, library, sidecars, failed,
          hash_index, search_index, jdex_index, processed_db, loop, placed,
          ndeleted, quiet, request, jd_data, jdex_json, now>>

allocVars == <<calls, issued>>
taxVars == <<jd_data, jdex_json, now>>
fileVars == <<inbox, library, sidecars, failed, hash_index, search_index,
              jdex_index, processed_db, loop, placed, ndeleted, quiet>>

\* ------------------------------------------------------------------------
\* Bounds of the model
\* ------------------------------------------------------------------------
MaxIssued == 3      \* identifiers created in one allocator run
MaxFiles == 2       \* files put into the inbox in one run and still held somewhere
MaxDeleted == 1     \* files:delete requests in one run of the library

\* ------------------------------------------------------------------------
\* Strings
\* ------------------------------------------------------------------------
EmptyMap == [k \in {} |-> {}]

Digits == <<"0", "1", "2", "3", "4", "5", "6", "7", "8", "9">>

DigitValue(c) == CHOOSE d \in 0..9 : Digits[d + 1] = c

RECURSIVE str(_)
str(n) == IF n < 10 THEN <<Digits[n + 1]>>
          ELSE str(n \div 10) \o <<Digits[(n % 10) + 1]>>

format_02d(n) == IF n < 10 THEN <<"0">> \o str(n) ELSE str(n)

RECURSIVE lstrip(_)
lstrip(s) == IF s # <<>> /\ Head(s) = " " THEN lstrip(Tail(s)) ELSE s

RECURSIVE first_token(_)
first_token(s) == IF s = <<>> \/ Head(s) = " " THEN <<>>
                  ELSE <<Head(s)>> \o first_token(Tail(s))

split_0(s) == first_token(lstrip(s))

LowerLetters == <<"a", "b", "c", "d", "e", "f", "g", "h", "i", "j", "k", "l", "m",
                  "n", "o", "p", "q", "r", "s", "t", "u", "v", "w", "x", "y", "z">>
UpperLetters == <<"A", "B", "C", "D", "E", "F", "G", "H", "I", "J", "K", "L", "M",
                  "N", "O", "P", "Q", "R", "S", "T", "U", "V", "W", "X", "Y", "Z">>

is_lower(c) == \E i \in 1..26 : LowerLetters[i] = c
is_upper(c) == \E i \in 1..26 : UpperLetters[i] = c
is_alpha(c) == is_lower(c) \/ is_upper(c)
is_digit(c) == \E i \in 1..10 : Digits[i] = c

lower_char(c) == IF is_upper(c)
                 THEN LowerLetters[CHOOSE i \in 1..26 : UpperLetters[i] = c] ELSE c
upper_char(c) == IF is_lower(c)
                 THEN UpperLetters[CHOOSE i \in 1..26 : LowerLetters[i] = c] ELSE c

lower(s) == [i \in 1..Len(s) |-> lower_char(s[i])]

title(s) == [i \in 1..Len(s) |->
                IF is_alpha(s[i])
                THEN IF i > 1 /\ is_alpha(s[i - 1]) THEN lower_char(s[i])
                     ELSE upper_char(s[i])
                ELSE s[i]]

RECURSIVE rstrip_chars(_, _)
rstrip_chars(s, chars) ==
    IF s # <<>> /\ s[Len(s)] \in chars
    THEN rstrip_chars(SubSeq(s, 1, Len(s) - 1), chars) ELSE s

strip(s) == rstrip_chars(lstrip(s), {" "})

replace_chars(s, chars, by) == [i \in 1..Len(s) |-> IF s[i] \in chars THEN by ELSE s[i]]

prefix(s, n) == SubSeq(s, 1, IF Len(s) < n THEN Len(s) ELSE n)

isdigit(s) == s # <<>> /\ \A i \in 1..Len(s) : is_digit(s[i])

rfind_dot(s) == IF \E i \in 1..Len(s) : s[i] = "."
                THEN CHOOSE i \in 1..Len(s) :
                        s[i] = "." /\ \A j \in (i + 1)..Len(s) : s[j] # "."
                ELSE 0

path_suffix(name) == LET i == rfind_dot(name)
                     IN  IF 1 < i /\ i < Len(name) THEN SubSeq(name, i, Len(name)) ELSE <<>>

path_stem(name) == LET i == rfind_dot(name)
                   IN  IF 1 < i /\ i < Len(name) THEN SubSeq(name, 1, i - 1) ELSE name

\* ------------------------------------------------------------------------
\* Identifier allocator
\* ------------------------------------------------------------------------
load_jd_ids(file) == file

save_jd_ids(file, ids) == ids

allocation_key(correspondent, year) == correspondent \o <<"_">> \o year

format_jd_id(cat_num, id_num) == cat_num \o <<".">> \o format_02d(id_num)

next_id_same(id_num) == id_num

next_id_after(id_num) == id_num + 1

has_mapping_never(mappings, key) == FALSE

has_mapping(mappings, key) == key \in DOMAIN mappings

get_or_create_jd_id(file, jd_category, correspondent, year) ==
    LET loaded == load_jd_ids(file)
        ids1 == IF jd_category \in DOMAIN loaded THEN loaded
                ELSE loaded @@ (jd_category :> [next_id |-> 1, mappings |-> EmptyMap])
        key == allocation_key(correspondent, year)
        entry == ids1[jd_category]
        id_num == entry.next_id
        jd_id == format_jd_id(split_0(jd_category), id_num)
        ids2 == [ids1 EXCEPT ![jd_category] =
                    [next_id |-> next_id_after(id_num),
                     mappings |-> (key :> jd_id) @@ entry.mappings]]
    IN  IF has_mapping(entry.mappings, key)
        THEN [ret |-> entry.mappings[key], file |-> file, created |-> FALSE]
        ELSE [ret |-> jd_id, file |-> save_jd_ids(file, ids2), created |-> TRUE]

\* ------------------------------------------------------------------------
\* Naming of organized documents
\* ------------------------------------------------------------------------
SUPPORTED_FORMATS ==
    { <<".", "p", "d", "f">>,
      <<".", "p", "n", "g">>,
      <<".", "j", "p", "g">>,
      <<".", "j", "p", "e", "g">>,
      <<".", "t", "i", "f", "f">>,
      <<".", "b", "m", "p">>,
      <<".", "d", "o", "c", "x">>,
      <<".", "p", "p", "t", "x">>,
      <<".", "x", "l", "s", "x">>,
      <<".", "t", "x", "t">>,
      <<".", "h", "t", "m", "l">> }

FolderDescriptorCap == 60
FilenameDescriptorCap == 50

CurrentYear == <<"2", "0", "2", "5">>

NoneWords == { <<"n", "u", "l", "l">>, <<"n", "o", "n", "e">> }

clean_part(x) ==
    IF x = <<>> THEN <<>>
    ELSE replace_chars(rstrip_chars(strip(x), {".", ",", ";", ":"}), {"/", "\\", ":"}, "_")

RECURSIVE join_space(_)
join_space(parts) == IF Len(parts) = 1 THEN parts[1]
                     ELSE parts[1] \o <<" ">> \o join_space(Tail(parts))

build_descriptor(analysis, original_name) ==
    LET issuer == clean_part(analysis.issuer)
        document_type == clean_part(analysis.document_type)
        subject_person == analysis.subject_person
        parts == (IF issuer # <<>> THEN <<issuer>> ELSE <<>>)
                 \o (IF document_type # <<>> THEN <<document_type>> ELSE <<>>)
                 \o (IF subject_person # <<>> /\ lower(subject_person) \notin NoneWords
                     THEN << <<"(">> \o subject_person \o <<")">> >> ELSE <<>>)
        stem0 == path_stem(original_name)
        stem == IF Len(stem0) > 8 /\ isdigit(prefix(stem0, 8))
                THEN (IF Len(stem0) > 9 THEN SubSeq(stem0, 10, Len(stem0)) ELSE stem0)
                ELSE stem0
    IN  IF parts # <<>> THEN join_space(parts)
        ELSE title(replace_chars(stem, {"_"}, " "))

generate_folder_descriptor(analysis, original_name) ==
    prefix(build_descriptor(analysis, original_name), FolderDescriptorCap)

extract_year(analysis) ==
    IF analysis.date_mentioned # <<>> THEN prefix(analysis.date_mentioned, 4)
    ELSE CurrentYear

generate_filename(original_name, analysis, jd_id, year) ==
    LET suffix == path_suffix(original_name)
        descriptor == prefix(build_descriptor(analysis, original_name), FilenameDescriptorCap)
        yr == IF year = <<>> THEN extract_year(analysis) ELSE year
    IN  IF jd_id # <<>> THEN jd_id \o <<" ">> \o descriptor \o <<" ">> \o yr \o suffix
        ELSE descriptor \o <<" ">> \o yr \o suffix

\* ------------------------------------------------------------------------
\* Organizer
\* ------------------------------------------------------------------------
NoPath == <<>>

\* hashlib.sha256 of the bytes: equal contents, equal digests
get_file_hash(content) == <<"sha256", content>>

dest_exists_never(files, dest_dir, filename) == FALSE

dest_exists(files, dest_dir, filename) == <<dest_dir[1], dest_dir[2], filename>> \in files

RECURSIVE free_dest_name(_, _, _, _, _)
free_dest_name(files, dest_dir, candidate, new_name, counter) ==
    IF dest_exists(files, dest_dir, candidate)
    THEN free_dest_name(files, dest_dir,
                        path_stem(new_name) \o <<"_">> \o str(counter) \o path_suffix(new_name),
                        new_name, counter + 1)
    ELSE candidate

create_metadata_file(dest, analysis, original_name, jd_id, extracted_text) ==
    [id |-> jd_id, jd_area |-> analysis.jd_area, jd_category |-> analysis.jd_category,
     original_filename |-> original_name, current_filename |-> dest[3],
     extracted_text |-> extracted_text]

add_to_search_index_replacing(index, dest, original_name, analysis, extracted_text) ==
    Append(SelectSeq(index, LAMBDA e : e.original_filename # original_name),
           [file_path |-> dest, original_filename |-> original_name,
            jd_area |-> analysis.jd_area, jd_category |-> analysis.jd_category,
            extracted_text |-> extracted_text])

\* load_search_index, index.append(entry), save_search_index
add_to_search_index(index, dest, original_name, analysis, extracted_text) ==
    Append(index, [file_path |-> dest, original_filename |-> original_name,
                   jd_area |-> analysis.jd_area, jd_category |-> analysis.jd_category,
                   extracted_text |-> extracted_text])

add_to_hash_index(index, file_hash, dest) == (file_hash :> dest) @@ index

update_jdex_index(index, jd_id, correspondent, year, filename) ==
    Append(index, [id |-> jd_id, correspondent |-> correspondent, year |-> year,
                   filename |-> filename])

organize_file(original_name, content, analysis, extracted_text) ==
    LET jd_area == analysis.jd_area
        jd_category == analysis.jd_category
        folder_descriptor == generate_folder_descriptor(analysis, original_name)
        year == extract_year(analysis)
        alloc == get_or_create_jd_id(jd_ids, jd_category, folder_descriptor, year)
        jd_id == alloc.ret
        dest_dir == <<jd_area, jd_category>>
        new_name == generate_filename(original_name, analysis, jd_id, year)
        dest_name == free_dest_name(DOMAIN library, dest_dir, new_name, new_name, 1)
        dest == <<jd_area, jd_category, dest_name>>
        file_hash == get_file_hash(content)
    IN  [jd_ids |-> alloc.file,
         library |-> (dest :> content) @@ library,
         sidecars |-> (dest :> create_metadata_file(dest, analysis, original_name,
                                                    jd_id, extracted_text)) @@ sidecars,
         search_index |-> add_to_search_index(search_index, dest, original_name,
                                              analysis, extracted_text),
         hash_index |-> add_to_hash_index(hash_index, file_hash, dest),
         jdex_index |-> update_jdex_index(jdex_index, jd_id, folder_descriptor, year,
                                          dest_name),
         dest |-> dest, jd_id |-> jd_id, new_name |-> new_name, created |-> alloc.created]

\* ------------------------------------------------------------------------
\* Duplicate index and processed ledger
\* ------------------------------------------------------------------------
Remove(f, k) == [x \in DOMAIN f \ {k} |-> f[x]]

find_duplicate_never(index, files, file_hash) == [ret |-> NoPath, index |-> index]

find_duplicate_in_index(index, files, file_hash) ==
    IF file_hash \in DOMAIN index
    THEN IF index[file_hash] \in files
         THEN [ret |-> index[file_hash], index |-> index]
         ELSE [ret |-> NoPath, index |-> Remove(index, file_hash)]
    ELSE [ret |-> NoPath, index |-> index]

\* _failed lies under the output directory
failed_path(name) == <<"_failed", name>>

existing_paths(lib, fl) == DOMAIN lib \cup { failed_path(n) : n \in DOMAIN fl }

is_file_processed_never(file_hash, processed) == FALSE

\* file_hash in processed
is_file_processed(file_hash, processed) == file_hash \in DOMAIN processed

mark_file_processed(file_hash, original_name, dest, processed) ==
    (file_hash :> [original_name |-> original_name, destination |-> dest]) @@ processed

is_supported(name) == lower(path_suffix(name)) \in SUPPORTED_FORMATS

keep_in_inbox(inb, fl, name) == [inbox |-> inb, failed |-> (name :> inb[name]) @@ fl]

move_to_failed(inb, fl, name) ==
    [inbox |-> Remove(inb, name), failed |-> (name :> inb[name]) @@ fl]

\* ------------------------------------------------------------------------
\* Initial library: nothing organized yet, ingest loop not running
\* ------------------------------------------------------------------------
IdleLoop == [pc |-> "idle", driver |-> "none", todo |-> {}, processed |-> EmptyMap,
             dirty |-> FALSE]

QuietOff == [on |-> FALSE]

NoRequest == [text |-> <<>>]

NoFile == <<"<absent>">>

\* JDSystem.__init__: the empty structure, jdex.json not written yet
EmptyJdex ==
    [meta |-> [created_at |-> 0, last_modified |-> 0, generation_method |-> "none"],
     areas |-> <<>>,
     history |-> <<>>]

EmptyTaxonomy ==
    /\ jd_data = EmptyJdex
    /\ jdex_json = NoFile
    /\ now = 1

EmptyFiles ==
    /\ inbox = EmptyMap
    /\ library = EmptyMap
    /\ sidecars = EmptyMap
    /\ failed = EmptyMap
    /\ hash_index = EmptyMap
    /\ search_index = <<>>
    /\ jdex_index = <<>>
    /\ processed_db = EmptyMap
    /\ loop = IdleLoop
    /\ placed = {}
    /\ ndeleted = 0
    /\ quiet = QuietOff

\* ------------------------------------------------------------------------
\* Allocator run: get_or_create_jd_id called with arbitrary strings
\* ------------------------------------------------------------------------
AllocCategories == { <<"1", "4", " ", "R">>, <<"2", "1", " ", "M">> }
AllocIssuers == { <<"a">>, <<"A">>, <<"a", "_", "1">> }
AllocYears == { <<"2", "4">>, <<"1", "_", "2", "4">> }

OldKey(i) == <<"o">> \o str(i) \o <<"_">> \o <<"2", "0">>

AgedIds(cat, n) ==
    cat :> [next_id |-> n,
            mappings |-> [k \in {OldKey(i) : i \in 1..(n - 1)} |->
                            format_jd_id(split_0(cat),
                                CHOOSE i \in 1..(n - 1) : OldKey(i) = k)]]

InitAlloc ==
    /\ jd_ids \in {EmptyMap, AgedIds(<<"1", "4", " ", "R">>, 9)}
    /\ calls = {}
    /\ issued = <<>>
    /\ last = [op |-> "none"]
    /\ request = NoRequest
    /\ EmptyFiles
    /\ EmptyTaxonomy

AllocCall(cat, issuer, year) ==
    LET r == get_or_create_jd_id(jd_ids, cat, issuer, year)
    IN  /\ r.created => Len(issued) < MaxIssued
        /\ jd_ids' = r.file
        /\ calls' = calls \cup {[cat |-> cat, issuer |-> issuer, year |-> year, ret |-> r.ret]}
        /\ issued' = IF r.created
                     THEN Append(issued, [cat |-> cat,
                                          key |-> allocation_key(issuer, year),
                                          id |-> r.ret])
                     ELSE issued
        /\ last' = [op |-> "alloc", cat |-> cat, issuer |-> issuer, year |-> year,
                    ret |-> r.ret, created |-> r.created,
                    seen |-> \E c \in calls : c.cat = cat /\ c.issuer = issuer /\ c.year = year,
                    changed |-> (r.file # jd_ids)]
        /\ UNCHANGED <<fileVars, request, taxVars>>

NextAlloc ==
    \E cat \in AllocCategories, issuer \in AllocIssuers, year \in AllocYears :
        AllocCall(cat, issuer, year)

SpecAlloc == InitAlloc /\ [][NextAlloc]_vars

\* ------------------------------------------------------------------------
\* Ingest loop, files:move and files:delete
\* ------------------------------------------------------------------------
Names == { <<"a", ".", "p", "d", "f">>, <<"b", ".", "p", "d", "f">> }
Contents == { "c1", "c2" }

AreaFinance == <<"1", "0", "-", "1", "9", " ", "F">>
CatReceipts == <<"1", "4", " ", "R">>
CatBanking == <<"1", "1", " ", "B">>

\* results of the categorization step: one as an AI backend fills it in, one
\* as the keyword backend does (no issuer, no document type, no date)
Analyses ==
    { [jd_area |-> AreaFinance, jd_category |-> CatReceipts, issuer |-> <<"A", "m">>,
       document_type |-> <<"R">>, subject_person |-> <<>>,
       date_mentioned |-> <<"2", "0", "2", "4", "-", "0", "1">>],
      [jd_area |-> AreaFinance, jd_category |-> CatReceipts, issuer |-> <<>>,
       document_type |-> <<>>, subject_person |-> <<>>, date_mentioned |-> <<>>] }

MinimalAnalysis(area, category) ==
    [jd_area |-> area, jd_category |-> category, issuer |-> <<"U", "n", "k", "n", "o", "w", "n">>,
     document_type |-> <<"D", "o", "c", "u", "m", "e", "n", "t">>, subject_person |-> <<>>,
     date_mentioned |-> <<>>]

Init ==
    /\ jd_ids = EmptyMap
    /\ calls = {}
    /\ issued = <<>>
    /\ last = [op |-> "none"]
    /\ request = NoRequest
    /\ EmptyFiles
    /\ EmptyTaxonomy

Persistent == <<jd_ids, library, sidecars, hash_index, search_index, jdex_index, processed_db>>

Snapshot == { n \in DOMAIN inbox : is_supported(n) }

extracted_text_of(content) == <<"text", content>>

\* a user or scanner puts a file into the inbox
Drop(n, c) ==
    /\ n \notin DOMAIN inbox
    /\ Len(search_index) + Cardinality(DOMAIN failed) + Cardinality(DOMAIN inbox)
          < MaxFiles
    /\ inbox' = (n :> c) @@ inbox
    /\ placed' = placed \cup {c}
    /\ loop' = [loop EXCEPT !.dirty = TRUE]
    /\ quiet' = QuietOff
    /\ last' = [op |-> "drop", name |-> n, hash |-> get_file_hash(c), content |-> c]
    /\ UNCHANGED <<jd_ids, library, sidecars, failed, hash_index, search_index,
                   jdex_index, processed_db, ndeleted, allocVars, request, taxVars>>

process_file(n, extraction_ok, analysis) ==
    LET content == inbox[n]
        dup == find_duplicate_in_index(hash_index, existing_paths(library, failed),
                                       get_file_hash(content))
        quarantined == move_to_failed(inbox, failed, n)
        org == organize_file(n, content, analysis, extracted_text_of(content))
        unchanged == [jd_ids |-> jd_ids, library |-> library, sidecars |-> sidecars,
                      search_index |-> search_index, jdex_index |-> jdex_index,
                      hash_index |-> dup.index, failed |-> failed]
    IN  IF dup.ret # NoPath
        THEN unchanged @@ [success |-> FALSE, error |-> "Duplicate file",
                           inbox |-> Remove(inbox, n), destination |-> NoPath]
        ELSE IF ~extraction_ok
        THEN [failed |-> quarantined.failed, inbox |-> quarantined.inbox,
              success |-> FALSE, error |-> "Text extraction failed",
              destination |-> NoPath] @@ unchanged
        ELSE [success |-> TRUE, error |-> "", inbox |-> Remove(inbox, n),
              destination |-> org.dest, jd_ids |-> org.jd_ids, library |-> org.library,
              sidecars |-> org.sidecars, search_index |-> org.search_index,
              jdex_index |-> org.jdex_index, hash_index |-> org.hash_index,
              failed |-> failed, new_name |-> org.new_name]

\* process_once: load the ledger and list the inbox
StartOnce ==
    /\ loop.pc = "idle"
    /\ loop' = [pc |-> "scanning", driver |-> "once", todo |-> Snapshot,
                processed |-> processed_db, dirty |-> FALSE]
    /\ last' = [op |-> "start_once"]
    /\ UNCHANGED <<jd_ids, inbox, library, sidecars, failed, hash_index, search_index,
                   jdex_index, processed_db, placed, quiet, ndeleted, allocVars, request, taxVars>>

\* watch_folder: load the ledger once, then list the inbox
StartWatch ==
    /\ loop.pc = "idle"
    /\ loop' = [pc |-> "scanning", driver |-> "watch", todo |-> Snapshot,
                processed |-> processed_db, dirty |-> FALSE]
    /\ quiet' = QuietOff
    /\ last' = [op |-> "start_watch"]
    /\ UNCHANGED <<jd_ids, inbox, library, sidecars, failed, hash_index, search_index,
                   jdex_index, processed_db, placed, ndeleted, allocVars, request, taxVars>>

\* the body of the for loop of process_once and watch_folder for one file
IngestFile(n, extraction_ok, analysis) ==
    /\ loop.pc = "scanning"
    /\ n \in loop.todo
    /\ \E r \in {process_file(n, extraction_ok, analysis)} :
       LET file_hash == get_file_hash(inbox[n])
           hit == is_file_processed(file_hash, loop.processed)
           processed1 == IF ~hit /\ r.success
                         THEN mark_file_processed(file_hash, n, r.destination, loop.processed)
                         ELSE loop.processed
       IN  /\ inbox' = IF hit THEN Remove(inbox, n) ELSE r.inbox
           /\ jd_ids' = IF hit THEN jd_ids ELSE r.jd_ids
           /\ library' = IF hit THEN library ELSE r.library
           /\ sidecars' = IF hit THEN sidecars ELSE r.sidecars
           /\ failed' = IF hit THEN failed ELSE r.failed
           /\ hash_index' = IF hit THEN hash_index ELSE r.hash_index
           /\ search_index' = IF hit THEN search_index ELSE r.search_index
           /\ jdex_index' = IF hit THEN jdex_index ELSE r.jdex_index
           /\ processed_db' = IF loop.driver = "watch" /\ ~hit /\ r.success
                              THEN processed1 ELSE processed_db
           /\ loop' = [loop EXCEPT !.todo = @ \ {n}, !.processed = processed1]
           /\ last' = [op |-> "ingest", name |-> n, hash |-> file_hash, content |-> inbox[n],
                       outcome |-> IF hit THEN "ledger_hit"
                                   ELSE IF r.success THEN "organized"
                                   ELSE IF r.error = "Duplicate file" THEN "duplicate"
                                   ELSE "failed",
                       destination |-> IF hit THEN NoPath ELSE r.destination,
                       new_name |-> IF ~hit /\ r.success THEN r.new_name ELSE <<>>,
                       fresh |-> (~hit /\ r.success) => r.destination \notin DOMAIN library,
                       in_library |-> \E p \in DOMAIN library : library[p] = inbox[n],
                       in_index |-> /\ file_hash \in DOMAIN hash_index
                                    /\ hash_index[file_hash] \in DOMAIN library,
                       known |-> file_hash \in DOMAIN loop.processed,
                       kept |-> <<hash_index', jdex_index', failed', processed_db',
                                  loop'.processed>>
                                  = <<hash_index, jdex_index, failed, processed_db,
                                      loop.processed>>,
                       stale |-> /\ file_hash \in DOMAIN hash_index
                                 /\ hash_index[file_hash] \notin existing_paths(library, failed),
                       intact |-> \A p \in DOMAIN library :
                                    /\ p \in DOMAIN library' /\ library'[p] = library[p]
                                    /\ p \in DOMAIN sidecars =>
                                         (p \in DOMAIN sidecars' /\ sidecars'[p] = sidecars[p]),
                       same |-> <<jd_ids', library', sidecars', search_index'>>
                                  = <<jd_ids, library, sidecars, search_index>>]
    /\ UNCHANGED <<placed, quiet, ndeleted, allocVars, request, taxVars>>

\* process_once: the loop is over, save the ledger
FinishOnce ==
    /\ loop.pc = "scanning" /\ loop.driver = "once" /\ loop.todo = {}
    /\ processed_db' = loop.processed
    /\ loop' = IdleLoop
    /\ quiet' = IF loop.dirty THEN QuietOff
                ELSE IF quiet.on THEN [quiet EXCEPT !.passes = 2]
                ELSE [on |-> TRUE, passes |-> 1,
                      snap |-> <<jd_ids, library, sidecars, hash_index, search_index,
                                 jdex_index, loop.processed>>]
    /\ last' = [op |-> "finish_once"]
    /\ UNCHANGED <<jd_ids, inbox, library, sidecars, failed, hash_index, search_index,
                   jdex_index, placed, ndeleted, allocVars, request, taxVars>>

\* process_once is killed between two files: the ledger is not saved
Interrupt ==
    /\ loop.pc = "scanning" /\ loop.driver = "once"
    /\ loop' = IdleLoop
    /\ quiet' = QuietOff
    /\ last' = [op |-> "interrupt"]
    /\ UNCHANGED <<jd_ids, inbox, library, sidecars, failed, hash_index, search_index,
                   jdex_index, processed_db, placed, ndeleted, allocVars, request, taxVars>>

\* watch_folder: sleep, then list the inbox again
WatchSleep ==
    /\ loop.pc = "scanning" /\ loop.driver = "watch" /\ loop.todo = {}
    /\ loop' = [loop EXCEPT !.todo = Snapshot, !.dirty = FALSE]
    /\ last' = [op |-> "watch_sleep"]
    /\ UNCHANGED <<jd_ids, inbox, library, sidecars, failed, hash_index, search_index,
                   jdex_index, processed_db, placed, quiet, ndeleted, allocVars, request, taxVars>>

\* watch_folder: KeyboardInterrupt ends the watcher
StopWatch ==
    /\ loop.pc = "scanning" /\ loop.driver = "watch"
    /\ loop' = IdleLoop
    /\ last' = [op |-> "stop_watch"]
    /\ UNCHANGED <<jd_ids, inbox, library, sidecars, failed, hash_index, search_index,
                   jdex_index, processed_db, placed, quiet, ndeleted, allocVars, request, taxVars>>

\* files:move: organize an inbox file under the area and category the user chose
HandleFilesMove(n, loaded, area, category) ==
    /\ loop.pc = "idle"
    /\ n \in DOMAIN inbox
    /\ \E org \in {organize_file(n, inbox[n],
                                  [loaded EXCEPT !.jd_area = area, !.jd_category = category],
                                  extracted_text_of(inbox[n]))} :
       LET file_hash == get_file_hash(inbox[n])
       IN  /\ inbox' = Remove(inbox, n)
           /\ jd_ids' = org.jd_ids
           /\ library' = org.library
           /\ sidecars' = org.sidecars
           /\ search_index' = org.search_index
           /\ hash_index' = org.hash_index
           /\ jdex_index' = org.jdex_index
           /\ last' = [op |-> "files_move", name |-> n, hash |-> file_hash, content |-> inbox[n],
                       outcome |-> "organized", destination |-> org.dest,
                       new_name |-> org.new_name,
                       fresh |-> org.dest \notin DOMAIN library,
                       in_library |-> \E p \in DOMAIN library : library[p] = inbox[n],
                       in_index |-> /\ file_hash \in DOMAIN hash_index
                                    /\ hash_index[file_hash] \in DOMAIN library,
                       intact |-> \A p \in DOMAIN library :
                                    /\ p \in DOMAIN library' /\ library'[p] = library[p]
                                    /\ p \in DOMAIN sidecars =>
                                         (p \in DOMAIN sidecars' /\ sidecars'[p] = sidecars[p]),
                       same |-> <<jd_ids', library', sidecars', search_index'>>
                                  = <<jd_ids, library, sidecars, search_index>>]
    /\ quiet' = QuietOff
    /\ UNCHANGED <<failed, processed_db, loop, placed, ndeleted, allocVars, request, taxVars>>

\* files:delete: delete a library document and its sidecar
HandleFilesDelete(p) ==
    /\ loop.pc = "idle"
    /\ p \in DOMAIN library
    /\ ndeleted < MaxDeleted
    /\ ndeleted' = ndeleted + 1
    /\ library' = Remove(library, p)
    /\ sidecars' = IF p \in DOMAIN sidecars THEN Remove(sidecars, p) ELSE sidecars
    /\ placed' = placed \ {library[p]}
    /\ quiet' = QuietOff
    /\ last' = [op |-> "files_delete", path |-> p]
    /\ UNCHANGED <<jd_ids, inbox, failed, hash_index, search_index, jdex_index,
                   processed_db, loop, allocVars, request, taxVars>>

Next ==
    \/ \E n \in Names, c \in Contents : Drop(n, c)
    \/ StartOnce
    \/ StartWatch
    \/ \E n \in Names, ok \in BOOLEAN, a \in Analyses : IngestFile(n, ok, a)
    \/ FinishOnce
    \/ Interrupt
    \/ WatchSleep
    \/ StopWatch
    \/ \E p \in DOMAIN library : HandleFilesDelete(p)

Spec == Init /\ [][Next]_vars

LoadedAnalyses == { a \in Analyses : a.issuer # <<>> }
                    \cup {MinimalAnalysis(AreaFinance, CatReceipts)}

NextReview ==
    \/ \E n \in Names, c \in Contents : Drop(n, c)
    \/ \E n \in Names, a \in LoadedAnalyses, category \in {CatReceipts, CatBanking} :
            HandleFilesMove(n, a, AreaFinance, category)
    \/ \E p \in DOMAIN library : HandleFilesDelete(p)

SpecReview == Init /\ [][NextReview]_vars

\* ------------------------------------------------------------------------
\* Rebuild of the duplicate index (build_hash_index) on a library that the
\* user also changes by hand
\* ------------------------------------------------------------------------
\* the files rglob yields that the scan does not skip: hidden files, sidecars
\* and the inbox are not part of library or failed, the suffix is tested
walked_files(lib, fl) ==
    { p \in existing_paths(lib, fl) : is_supported(p[Len(p)]) }

content_at(lib, fl, p) == IF p \in DOMAIN lib THEN lib[p] ELSE fl[p[2]]

\* rglob yields the files in an order the file system chooses
WalkOrders(files) ==
    { o \in [1..Cardinality(files) -> files] :
        \A i, j \in 1..Cardinality(files) : o[i] = o[j] => i = j }

RECURSIVE scan_files(_, _, _, _)
scan_files(index, order, lib, fl) ==
    IF order = <<>> THEN index
    ELSE LET file_hash == get_file_hash(content_at(lib, fl, Head(order)))
         IN  scan_files(IF file_hash \in DOMAIN index THEN index
                        ELSE (file_hash :> Head(order)) @@ index,
                        Tail(order), lib, fl)

prune_stale_never(index, found_hashes) == index

prune_stale(index, found_hashes) ==
    [h \in DOMAIN index \cap found_hashes |-> index[h]]

build_hash_index(index_file, force_rebuild, order, lib, fl) ==
    LET index == IF force_rebuild THEN EmptyMap ELSE index_file
        found_hashes == { get_file_hash(content_at(lib, fl, order[i])) : i \in 1..Len(order) }
    IN  prune_stale(scan_files(index, order, lib, fl), found_hashes)

\* the user moves a library document into another category folder
RelocateFile(p, category) ==
    /\ loop.pc = "idle"
    /\ p \in DOMAIN library
    /\ p[2] = CatReceipts /\ category # p[2]
    /\ <<p[1], category, p[3]>> \notin DOMAIN library
    /\ library' = (<<p[1], category, p[3]>> :> library[p]) @@ Remove(library, p)
    /\ quiet' = QuietOff
    /\ last' = [op |-> "relocate", path |-> p, to |-> <<p[1], category, p[3]>>]
    /\ UNCHANGED <<jd_ids, inbox, sidecars, failed, hash_index, search_index, jdex_index,
                   processed_db, loop, placed, ndeleted, allocVars, request, taxVars>>

\* --rebuild-index: scan the library, save and return the index
BuildHashIndex(force_rebuild) ==
    /\ loop.pc = "idle"
    /\ \E order \in WalkOrders(walked_files(library, failed)) :
       \E index \in {build_hash_index(hash_index, force_rebuild, order, library, failed)} :
          /\ hash_index' = index
          /\ last' = [op |-> "build_hash_index", force_rebuild |-> force_rebuild,
                      ret |-> index, before |-> hash_index,
                      repeated |-> last.op = "build_hash_index"]
    /\ quiet' = QuietOff
    /\ UNCHANGED <<jd_ids, inbox, library, sidecars, failed, search_index, jdex_index,
                   processed_db, loop, placed, ndeleted, allocVars, request, taxVars>>

\* the scanner always writes the same file name
ScannedName == <<"a", ".", "p", "d", "f">>
ScannedAnalysis == CHOOSE a \in Analyses : a.issuer # <<>>

NextIndex ==
    \/ \E c \in Contents : Drop(ScannedName, c)
    \/ StartOnce
    \/ \E ok \in BOOLEAN : IngestFile(ScannedName, ok, ScannedAnalysis)
    \/ FinishOnce
    \/ Interrupt
    \/ \E p \in DOMAIN library : HandleFilesDelete(p)
    \/ \E p \in DOMAIN library : RelocateFile(p, CatBanking)
    \/ \E force_rebuild \in BOOLEAN : BuildHashIndex(force_rebuild)

SpecIndex == Init /\ [][NextIndex]_vars

\* ------------------------------------------------------------------------
\* organize_file when a file-system operation raises
\* ------------------------------------------------------------------------
\* the operations of organize_file that touch the file system, in order
FailPoints == <<"allocate", "mkdir", "hash", "move", "sidecar", "search_index",
                "hash_index", "jdex_index">>

step_index(step) == CHOOSE i \in 1..Len(FailPoints) : FailPoints[i] = step

\* the step was completed before the one that raised
completed(step, fail_at) == step_index(step) < step_index(fail_at)

\* what organize_file leaves behind when the step fail_at raises; org is what
\* the call does when nothing fails, index the duplicate index it starts from
organize_file_failing(org, index, fail_at) ==
    [jd_ids |-> IF completed("allocate", fail_at) THEN org.jd_ids ELSE jd_ids,
     library |-> IF completed("move", fail_at) THEN org.library ELSE library,
     sidecars |-> IF completed("sidecar", fail_at) THEN org.sidecars ELSE sidecars,
     search_index |-> IF completed("search_index", fail_at) THEN org.search_index
                      ELSE search_index,
     hash_index |-> IF completed("hash_index", fail_at) THEN org.hash_index ELSE index,
     jdex_index |-> jdex_index,
     moved |-> completed("move", fail_at),
     returned |-> FALSE]

\* library files that the search index does not list
unindexed(lib, index) ==
    { p \in DOMAIN lib : \A i \in 1..Len(index) : index[i].file_path # p }

\* the body of the ingest loop for one file whose organize_file raises: no
\* caller catches the exception and the process ends; a run has at most one
\* failure that leaves a moved file out of the search index
OrganizeFails(n, analysis, fail_at) ==
    /\ loop.pc = "scanning"
    /\ unindexed(library, search_index) = {}
    /\ n \in loop.todo
    /\ get_file_hash(inbox[n]) \notin DOMAIN loop.processed
    /\ \E dup \in {find_duplicate_in_index(hash_index, existing_paths(library, failed),
                                           get_file_hash(inbox[n]))} :
       \E org \in {organize_file(n, inbox[n], analysis, extracted_text_of(inbox[n]))} :
       \E r \in {organize_file_failing(org, dup.index, fail_at)} :
          /\ dup.ret = NoPath
          /\ fail_at = "allocate" => org.created
          /\ jd_ids' = r.jd_ids
          /\ library' = r.library
          /\ sidecars' = r.sidecars
          /\ search_index' = r.search_index
          /\ hash_index' = r.hash_index
          /\ jdex_index' = r.jdex_index
          /\ inbox' = IF r.moved THEN Remove(inbox, n) ELSE inbox
          /\ last' = [op |-> "organize_fails", name |-> n, content |-> inbox[n],
                      hash |-> get_file_hash(inbox[n]), fail_at |-> fail_at,
                      moved |-> r.moved, returned |-> r.returned,
                      destination |-> org.dest,
                      before |-> [jd_ids |-> jd_ids, hash_index |-> dup.index,
                                  search_index |-> search_index, library |-> library]]
    /\ loop' = IdleLoop
    /\ quiet' = QuietOff
    /\ UNCHANGED <<failed, processed_db, placed, ndeleted, allocVars, request, taxVars>>

NextFailure ==
    \/ \E n \in Names, c \in Contents : Drop(n, c)
    \/ StartOnce
    \/ StartWatch
    \/ \E n \in Names, ok \in BOOLEAN : IngestFile(n, ok, ScannedAnalysis)
    \/ \E n \in Names, i \in 1..Len(FailPoints) :
          OrganizeFails(n, ScannedAnalysis, FailPoints[i])
    \/ FinishOnce
    \/ WatchSleep

SpecFailure == Init /\ [][NextFailure]_vars

\* ------------------------------------------------------------------------
\* Naming of an organized document: the steps of organize_file that choose
\* the identifier and the file name
\* ------------------------------------------------------------------------
LongIssuer == [i \in 1..FilenameDescriptorCap |-> "x"] \o <<"y", "z">>

Issuers == { <<>>, <<"A", "m">>, <<" ", "A", "m", ".">>, <<"A", "/", "B">>, LongIssuer }
DocumentTypes == { <<>>, <<"R">>, <<"B", "i", "l", "l", ":">> }
SubjectPersons == { <<>>, <<"N", "o", "n", "e">>, <<"B", "o">> }
DatesMentioned == { <<>>, <<"2", "0", "2", "4", "-", "0", "1">>, <<"1", "9">> }
OriginalNames == { <<"a", ".", "p", "d", "f">>, <<"b", ".", "c", ".", "P", "D", "F">>,
                   <<"2", "0", "2", "4", "1", "2", "2", "0", "_", "s", "_", "t", ".", "t", "x", "t">> }

NamingInputs ==
    [original_name : OriginalNames,
     analysis : [jd_area : {AreaFinance}, jd_category : {CatReceipts}, issuer : Issuers,
                 document_type : DocumentTypes, subject_person : SubjectPersons,
                 date_mentioned : DatesMentioned]]

InitNaming ==
    /\ jd_ids = EmptyMap
    /\ calls = {}
    /\ issued = <<>>
    /\ last = [op |-> "none"]
    /\ request \in NamingInputs
    /\ EmptyFiles
    /\ EmptyTaxonomy

\* organize_file up to the choice of the file name
NameDocument ==
    /\ last.op = "none"
    /\ \E folder_descriptor \in {generate_folder_descriptor(request.analysis,
                                                            request.original_name)} :
       \E year \in {extract_year(request.analysis)} :
       \E alloc \in {get_or_create_jd_id(jd_ids, request.analysis.jd_category,
                                         folder_descriptor, year)} :
          /\ jd_ids' = alloc.file
          /\ last' = [op |-> "name_document", jd_id |-> alloc.ret,
                      folder_descriptor |-> folder_descriptor, year |-> year,
                      key |-> allocation_key(folder_descriptor, year),
                      new_name |-> generate_filename(request.original_name,
                                                     request.analysis, alloc.ret, year)]
    /\ UNCHANGED <<fileVars, allocVars, request, taxVars>>

NextNaming == NameDocument

SpecNaming == InitNaming /\ [][NextNaming]_vars

\* ------------------------------------------------------------------------
\* The allocator step by step: load, modify, save (open, then dump), with
\* crashes and with two processes on one library root
\* ------------------------------------------------------------------------
\* .jd_ids.json after open(path, 'w') and before json.dump has finished
Truncated == <<"<truncated>">> :> [next_id |-> 0, mappings |-> EmptyMap]

\* load_jd_ids: a file that does not parse is read as {}
read_jd_ids(file) == IF file = Truncated THEN EmptyMap ELSE file

IdleProc == [pc |-> "idle"]

Writers == {"ingest", "review"}

StepCategory == <<"1", "4", " ", "R">>
StepIssuers == { <<"a">>, <<"b">>, <<"c">> }
StepYear == <<"2", "4">>

InitSteps ==
    /\ jd_ids = EmptyMap
    /\ calls = {}
    /\ issued = <<>>
    /\ last = [op |-> "none"]
    /\ request = [procs |-> [w \in Writers |-> IdleProc], overlap |-> FALSE]
    /\ EmptyFiles
    /\ EmptyTaxonomy

\* the call was answered: jd_id goes back to the caller
answer_call(w, cat, issuer, year, jd_id, created) ==
    /\ calls' = calls \cup {[cat |-> cat, issuer |-> issuer, year |-> year, ret |-> jd_id]}
    /\ issued' = IF created
                 THEN Append(issued, [cat |-> cat, key |-> allocation_key(issuer, year),
                                      id |-> jd_id])
                 ELSE issued
    /\ last' = [op |-> "alloc_return", writer |-> w, cat |-> cat, issuer |-> issuer,
                year |-> year, ret |-> jd_id, created |-> created,
                file |-> jd_ids']

\* get_or_create_jd_id up to save_jd_ids: load the file, look the key up and
\* return a known identifier, or prepare the new state in memory
AllocLoad(w, cat, issuer, year) ==
    /\ request.procs[w].pc = "idle"
    /\ \E r \in {get_or_create_jd_id(read_jd_ids(jd_ids), cat, issuer, year)} :
          IF r.created
          THEN /\ Len(issued) + Cardinality({v \in Writers : request.procs[v].pc # "idle"})
                     < MaxIssued
               /\ request' = [procs |-> [request.procs EXCEPT ![w] =
                                 [pc |-> "open", cat |-> cat, issuer |-> issuer,
                                  year |-> year, ids |-> r.file, jd_id |-> r.ret]],
                              overlap |-> request.overlap
                                 \/ \E v \in Writers \ {w} : request.procs[v].pc # "idle"]
               /\ last' = [op |-> "alloc_load", writer |-> w]
               /\ UNCHANGED <<jd_ids, calls, issued>>
          ELSE /\ UNCHANGED <<jd_ids, request>>
               /\ answer_call(w, cat, issuer, year, r.ret, FALSE)
    /\ UNCHANGED <<fileVars, taxVars>>

\* save_jd_ids: open(ids_path, 'w') empties the file
AllocOpen(w) ==
    /\ request.procs[w].pc = "open"
    /\ jd_ids' = Truncated
    /\ request' = [request EXCEPT !.procs[w].pc = "dump"]
    /\ last' = [op |-> "alloc_open", writer |-> w]
    /\ UNCHANGED <<calls, issued, fileVars, taxVars>>

\* save_jd_ids: json.dump writes the state, then the identifier is returned
AllocDump(w) ==
    /\ request.procs[w].pc = "dump"
    /\ jd_ids' = request.procs[w].ids
    /\ request' = [request EXCEPT !.procs[w] = IdleProc]
    /\ answer_call(w, request.procs[w].cat, request.procs[w].issuer, request.procs[w].year,
                request.procs[w].jd_id, TRUE)
    /\ UNCHANGED <<fileVars, taxVars>>

\* the process is killed during an allocation; what it held in memory is gone
AllocCrash(w) ==
    /\ request.procs[w].pc # "idle"
    /\ request' = [request EXCEPT !.procs[w] = IdleProc]
    /\ last' = [op |-> "alloc_crash", writer |-> w, at |-> request.procs[w].pc]
    /\ UNCHANGED <<jd_ids, calls, issued, fileVars, taxVars>>

\* one process that may crash and be started again
NextCrash ==
    \/ \E issuer \in StepIssuers : AllocLoad("ingest", StepCategory, issuer, StepYear)
    \/ AllocOpen("ingest")
    \/ AllocDump("ingest")
    \/ AllocCrash("ingest")

SpecCrash == InitSteps /\ [][NextCrash]_vars

\* the ingest loop and the review tool on the same library root, no crashes
NextRace ==
    \/ \E w \in Writers, issuer \in StepIssuers :
          AllocLoad(w, StepCategory, issuer, StepYear)
    \/ \E w \in Writers : AllocOpen(w)
    \/ \E w \in Writers : AllocDump(w)

SpecRace == InitSteps /\ [][NextRace]_vars

\* ------------------------------------------------------------------------
\* preprocess_file: extract and analyse, leave the document in the inbox
\* ------------------------------------------------------------------------
\* the document whose '<name>.analysis.json' lies next to it in the inbox
get_analysis_path(name) == <<"01 Inbox", name>>

has_analysis_never(sc, name) == FALSE

has_analysis(sc, name) == get_analysis_path(name) \in DOMAIN sc

save_analysis(sc, name, analysis, extracted_text) ==
    (get_analysis_path(name) :>
        [jd_area |-> analysis.jd_area, jd_category |-> analysis.jd_category,
         issuer |-> analysis.issuer, extracted_text |-> extracted_text,
         original_filename |-> name]) @@ sc

\* categorize_with_llm gave None
NoAnalysis == [kind |-> "none"]

\* without an analysis, analysis.get raises
preprocess_file(sc, name, content, extraction_ok, analysis) ==
    IF has_analysis(sc, name)
    THEN [outcome |-> "skipped", success |-> TRUE, sidecars |-> sc]
    ELSE IF ~extraction_ok
    THEN [outcome |-> "failed", success |-> FALSE, sidecars |-> sc]
    ELSE IF analysis = NoAnalysis
    THEN [outcome |-> "raised", success |-> FALSE, sidecars |-> sc]
    ELSE [outcome |-> "analyzed", success |-> TRUE,
          sidecars |-> save_analysis(sc, name, analysis, extracted_text_of(content))]

PreprocessFile(n, extraction_ok, analysis) ==
    /\ n \in DOMAIN inbox
    /\ \E r \in {preprocess_file(sidecars, n, inbox[n], extraction_ok, analysis)} :
          /\ sidecars' = r.sidecars
          /\ last' = [op |-> "preprocess", name |-> n, outcome |-> r.outcome,
                      success |-> r.success,
                      had_analysis |-> get_analysis_path(n) \in DOMAIN sidecars,
                      sidecars_before |-> sidecars,
                      before |-> <<inbox, library, failed, jd_ids, hash_index,
                                   search_index, jdex_index, processed_db>>]
    /\ UNCHANGED <<jd_ids, inbox, library, failed, hash_index, search_index, jdex_index,
                   processed_db, loop, placed, ndeleted, quiet, allocVars, request, taxVars>>

NextPreprocess ==
    \/ \E n \in Names, c \in Contents : Drop(n, c)
    \/ \E n \in Names, ok \in BOOLEAN, a \in Analyses \cup {NoAnalysis} : PreprocessFile(n, ok, a)

SpecPreprocess == Init /\ [][NextPreprocess]_vars

\* ------------------------------------------------------------------------
\* Categorization: keyword backends, provider registry, categorize_document
\* ------------------------------------------------------------------------
\* a taxonomy (jd_areas) is an insertion-ordered dict, modelled as a sequence
\* of [area, categories], categories a sequence of [category, keywords]
SystemArea == <<"0", "0", "-", "0", "9", " ", "S", "y", "s", "t", "e", "m">>
ArchiveArea == <<"9", "0", "-", "9", "9", " ", "A", "r", "c", "h", "i", "v", "e">>
DefaultArea == <<"5", "0", "-", "5", "9", " ", "P", "e", "r", "s", "o", "n", "a", "l">>
DefaultCategory == <<"5", "4", " ", "M", "e", "m", "b", "e", "r", "s", "h", "i", "p", "s">>

None == <<"<None>">>
NoneResult == [kind |-> "none"]
Raised(e) == [kind |-> "raise", error |-> e]
Categorized(area, category, confidence) ==
    [kind |-> "result", jd_area |-> area, jd_category |-> category,
     confidence |-> confidence]

\* kw in text
contains(text, kw) ==
    \E i \in 0..(Len(text) - Len(kw)) : SubSeq(text, i + 1, i + Len(kw)) = kw

\* sum(1 for kw in keywords if kw in text_lower); fold: kw.lower() is used
count_matches(keywords, text_lower, fold) ==
    Cardinality({ i \in 1..Len(keywords) :
        contains(text_lower, IF fold THEN lower(keywords[i]) ELSE keywords[i]) })

is_system_area(area) == area = SystemArea \/ area = ArchiveArea

category_scores(a, text_lower, fold) ==
    [j \in 1..Len(a.categories) |->
        [jd_area |-> a.area, jd_category |-> a.categories[j].category,
         score |-> count_matches(a.categories[j].keywords, text_lower, fold)]]

RECURSIVE all_scores(_, _, _)
all_scores(jd_areas, text_lower, fold) ==
    IF jd_areas = <<>> THEN <<>>
    ELSE (IF is_system_area(Head(jd_areas).area) THEN <<>>
          ELSE category_scores(Head(jd_areas), text_lower, fold))
         \o all_scores(Tail(jd_areas), text_lower, fold)

max_score(scores) ==
    IF scores = <<>> THEN 0
    ELSE CHOOSE m \in { scores[i].score : i \in 1..Len(scores) } :
            \A i \in 1..Len(scores) : scores[i].score <= m

\* the first entry, in dict order, that reaches the highest score
first_best(scores) ==
    scores[CHOOSE i \in 1..Len(scores) :
              /\ scores[i].score = max_score(scores)
              /\ \A j \in 1..(i - 1) : scores[j].score < max_score(scores)]

categorize_with_keywords(text, jd_areas) ==
    LET scores == all_scores(jd_areas, lower(text), FALSE)
    IN  IF scores # <<>> /\ max_score(scores) > 0
        THEN Categorized(first_best(scores).jd_area, first_best(scores).jd_category, "low")
        ELSE Categorized(DefaultArea, DefaultCategory, "low")

KeywordProvider_categorize(text, jd_areas) ==
    LET scores == all_scores(jd_areas, lower(text), TRUE)
        best_score == max_score(scores)
        user_areas == SelectSeq(jd_areas, LAMBDA a : ~is_system_area(a.area))
    IN  IF best_score > 0
        THEN Categorized(first_best(scores).jd_area, first_best(scores).jd_category,
                         IF best_score < 2 THEN "low" ELSE "medium")
        ELSE IF user_areas = <<>> THEN NoneResult
        ELSE IF Head(user_areas).categories = <<>> THEN Raised("IndexError")
        ELSE Categorized(Head(user_areas).area,
                         Head(user_areas).categories[1].category, "low")

Anthropic == <<"a", "n", "t", "h", "r", "o", "p", "i", "c">>
ClaudeCode == <<"c", "l", "a", "u", "d", "e", "-", "c", "o", "d", "e">>
OpenAI == <<"o", "p", "e", "n", "a", "i">>
Bedrock == <<"b", "e", "d", "r", "o", "c", "k">>
Ollama == <<"o", "l", "l", "a", "m", "a">>
Keywords == <<"k", "e", "y", "w", "o", "r", "d", "s">>

PROVIDERS == { Anthropic, ClaudeCode, OpenAI, Bedrock, Ollama, Keywords }
PreferenceOrder == <<ClaudeCode, Anthropic, OpenAI, Bedrock, Ollama, Keywords>>

\* provider.is_available(): the keyword provider always is
is_available(p, available) == p = Keywords \/ p \in available

get_provider(name, env, available) ==
    LET n == IF name = None THEN lower(env) ELSE name
    IN  IF n = <<>>
        THEN [raised |-> FALSE,
              name |-> PreferenceOrder[CHOOSE i \in 1..Len(PreferenceOrder) :
                          /\ is_available(PreferenceOrder[i], available)
                          /\ \A j \in 1..(i - 1) :
                                ~is_available(PreferenceOrder[j], available)]]
        ELSE IF n \notin PROVIDERS THEN [raised |-> TRUE, name |-> n]
        ELSE [raised |-> FALSE, name |-> n]

Auto == <<"a", "u", "t", "o">>

\* Settings.get_effective_provider(): ai_provider is the stored preference,
\* stored_keys the providers with an API key in the settings file, available
\* the providers whose credentials, CLI or server are present in the
\* environment
get_effective_provider(ai_provider, stored_keys, available) ==
    IF ai_provider # Auto THEN ai_provider
    ELSE IF Anthropic \in stored_keys THEN Anthropic
    ELSE IF OpenAI \in stored_keys THEN OpenAI
    ELSE IF Anthropic \in available THEN Anthropic
    ELSE IF OpenAI \in available THEN OpenAI
    ELSE IF ClaudeCode \in available THEN ClaudeCode
    ELSE IF Ollama \in available THEN Ollama
    ELSE Keywords

\* what an AI backend answers when it is reached and its reply parses
AiResult == Categorized(AreaFinance, CatReceipts, "high")

\* ai_provider.categorize(text, jd_areas)
provider_categorize(p, req) ==
    IF p = Keywords THEN KeywordProvider_categorize(req.text, req.jd_areas)
    ELSE IF ~is_available(p, req.available) THEN NoneResult
    ELSE IF req.outcome = "result" THEN AiResult
    ELSE NoneResult

\* the fallback of categorize_document: KeywordProvider().categorize is called
keyword_fallback(req) ==
    [ret |-> KeywordProvider_categorize(req.text, req.jd_areas), fallback |-> TRUE]

categorize_document_no_fallback(req) ==
    LET ai_provider == get_provider(req.provider, req.env, req.available)
        result == provider_categorize(ai_provider.name, req)
    IN  IF ~ai_provider.raised /\ result.kind = "result"
        THEN [ret |-> result, fallback |-> FALSE]
        ELSE [ret |-> NoneResult, fallback |-> FALSE]

\* ret: what the caller gets; fallback: whether the keyword fallback ran
categorize_document(req) ==
    LET ai_provider == get_provider(req.provider, req.env, req.available)
        result == provider_categorize(ai_provider.name, req)
    IN  IF ai_provider.raised \/ result.kind = "raise"
        THEN IF req.fallback_to_keywords THEN keyword_fallback(req)
             ELSE [ret |-> NoneResult, fallback |-> FALSE]
        ELSE IF result.kind = "result" THEN [ret |-> result, fallback |-> FALSE]
        ELSE IF req.fallback_to_keywords /\ ai_provider.name # Keywords
        THEN keyword_fallback(req)
        ELSE [ret |-> NoneResult, fallback |-> FALSE]

CatInfo == <<"0", "1", " ", "I">>
AreaHobbies == <<"6", "0", "-", "6", "9", " ", "H">>

\* shaped like the built-in JD_AREAS: a system area, user areas, and
\* "50-59 Personal" with "54 Memberships"
StandardAreas ==
    << [area |-> SystemArea,
        categories |-> << [category |-> CatInfo, keywords |-> << <<"a">> >>] >>],
       [area |-> AreaFinance,
        categories |-> << [category |-> CatBanking, keywords |-> << <<"a">> >>],
                          [category |-> CatReceipts,
                           keywords |-> << <<"b">>, <<"a", "b">> >>] >>],
       [area |-> DefaultArea,
        categories |-> << [category |-> DefaultCategory, keywords |-> <<>>] >>] >>

\* a user-defined taxonomy without the built-in personal area
CustomAreas ==
    << [area |-> AreaFinance,
        categories |-> << [category |-> CatBanking, keywords |-> << <<"a">> >>] >>] >>

SystemOnlyAreas ==
    << [area |-> SystemArea,
        categories |-> << [category |-> CatInfo, keywords |-> << <<"a">> >>] >>] >>

\* an area added without categories comes first
BareAreaFirst ==
    << [area |-> AreaHobbies, categories |-> <<>>] >> \o CustomAreas

Taxonomies == { StandardAreas, CustomAreas, SystemOnlyAreas, <<>>, BareAreaFirst }
Texts == { <<>>, <<"a", "b">>, <<"A", " ", "b">> }
ProviderArgs == { None, Keywords, Anthropic, <<"g", "p", "t">> }
EnvProviders == { <<>>, <<"O", "l", "l", "a", "m", "a">> }
Availabilities ==
    { {}, {Anthropic}, {ClaudeCode, Ollama}, {ClaudeCode, Anthropic}, {Bedrock} }
StoredPreferences == { Auto, Ollama }

Requests ==
    [text : Texts, jd_areas : Taxonomies, provider : ProviderArgs,
     env : EnvProviders, available : Availabilities,
     outcome : {"result", "none"}, fallback_to_keywords : BOOLEAN]

InitCategorize ==
    /\ jd_ids = EmptyMap
    /\ calls = {}
    /\ issued = <<>>
    /\ last = [op |-> "none"]
    /\ request \in Requests
    /\ EmptyFiles
    /\ EmptyTaxonomy

CategorizeDocument ==
    /\ \E r \in {categorize_document(request)} :
          last' = [op |-> "categorize_document", result |-> r.ret,
                   fallback |-> r.fallback]
    /\ UNCHANGED <<jd_ids, fileVars, allocVars, request, taxVars>>

\* the two keyword backends applied to the same text and taxonomy
KeywordBackends ==
    /\ last' = [op |-> "keyword_backends",
                legacy |-> categorize_with_keywords(request.text, request.jd_areas),
                provider |-> KeywordProvider_categorize(request.text, request.jd_areas)]
    /\ UNCHANGED <<jd_ids, fileVars, allocVars, request, taxVars>>

\* the backend chosen by get_provider and by Settings.get_effective_provider
\* in the same environment
SelectBackend ==
    /\ \E setting \in StoredPreferences,
          stored \in { {}, request.available \cap {Anthropic, OpenAI} } :
          last' = [op |-> "select_backend", setting |-> setting, stored |-> stored,
                   effective |-> get_effective_provider(setting, stored,
                                                        request.available),
                   provider |-> get_provider(request.provider, request.env,
                                             request.available),
                   auto |-> get_provider(None, <<>>, request.available)]
    /\ UNCHANGED <<jd_ids, fileVars, allocVars, request, taxVars>>

NextCategorize == CategorizeDocument \/ KeywordBackends \/ SelectBackend

SpecCategorize == InitCategorize /\ [][NextCategorize]_vars

\* ------------------------------------------------------------------------
\* Taxonomy validator (JDValidator)
\* ------------------------------------------------------------------------
\* a taxonomy handed to the validator is an insertion-ordered dict, modelled
\* as a sequence of [name, data]; data is [format |-> "new", categories] for
\* {"categories": {...}} and [format |-> "legacy", categories] for an area
\* that maps category names directly; categories is the sequence of names
MAX_AREAS == 10
MAX_CATEGORIES_PER_AREA == 10

VALID_AREA_RANGES == { <<10 * d, 10 * d + 9>> : d \in 0..9 }

is_space(c) == c = " "

int(s) == 10 * DigitValue(s[1]) + DigitValue(s[2])

\* re.match(r'^\d{2}-\d{2}\s+.+', name)
is_valid_area_name(name) ==
    /\ Len(name) >= 7
    /\ is_digit(name[1]) /\ is_digit(name[2]) /\ name[3] = "-"
    /\ is_digit(name[4]) /\ is_digit(name[5]) /\ is_space(name[6])

\* re.match(r'^\d{2}\s+.+', name)
is_valid_category_name(name) ==
    /\ Len(name) >= 4
    /\ is_digit(name[1]) /\ is_digit(name[2]) /\ is_space(name[3])

\* re.match(r'^(\d{2})-(\d{2})\s+', area_name); <<>> stands for None
get_area_range(area_name) ==
    IF /\ Len(area_name) >= 6
       /\ is_digit(area_name[1]) /\ is_digit(area_name[2]) /\ area_name[3] = "-"
       /\ is_digit(area_name[4]) /\ is_digit(area_name[5]) /\ is_space(area_name[6])
    THEN <<int(SubSeq(area_name, 1, 2)), int(SubSeq(area_name, 4, 5))>>
    ELSE <<>>

\* re.match(r'^(\d{2})\s+', category_name); -1 stands for None
get_category_number(category_name) ==
    IF /\ Len(category_name) >= 3
       /\ is_digit(category_name[1]) /\ is_digit(category_name[2])
       /\ is_space(category_name[3])
    THEN int(SubSeq(category_name, 1, 2))
    ELSE -1

category_belongs_to_area(category_name, area_name) ==
    LET cat_num == get_category_number(category_name)
        area_range == get_area_range(area_name)
    IN  IF cat_num = -1 \/ area_range = <<>> THEN FALSE
        ELSE area_range[1] <= cat_num /\ cat_num <= area_range[2]

startswith(s, p) == Len(s) >= Len(p) /\ SubSeq(s, 1, Len(p)) = p

is_system_name(a) == startswith(a, <<"0", "0", "-", "0", "9">>)

KeyCategories == <<"c", "a", "t", "e", "g", "o", "r", "i", "e", "s">>
KeyKeywords == <<"k", "e", "y", "w", "o", "r", "d", "s">>

has_key(names, key) == \E i \in 1..Len(names) : names[i] = key

\* the keys of area_data as a dict
area_data_keys(area_data) ==
    IF area_data.format = "new" THEN <<KeyCategories>> ELSE area_data.categories

\* categories = area_data.get("categories", {}), replaced by area_data itself
\* when area_data has a "keywords" key
validated_categories(area_data) ==
    IF has_key(area_data_keys(area_data), KeyKeywords)
    THEN area_data_keys(area_data)
    ELSE IF area_data.format = "new" THEN area_data.categories
    ELSE <<>>

Violation(kind, area, what) == [kind |-> kind, area |-> area, what |-> what]

RECURSIVE validate_categories(_, _, _)
validate_categories(categories, area_name, used_numbers) ==
    IF categories = <<>> THEN <<>>
    ELSE LET cat_name == Head(categories)
             cat_num == get_category_number(cat_name)
         IN  IF ~is_valid_category_name(cat_name)
             THEN <<Violation("invalid_category_name", area_name, cat_name)>>
                  \o validate_categories(Tail(categories), area_name, used_numbers)
             ELSE (IF ~category_belongs_to_area(cat_name, area_name)
                   THEN <<Violation("category_outside_range", area_name, cat_name)>>
                   ELSE <<>>)
                  \o (IF cat_num \in used_numbers
                      THEN <<Violation("duplicate_category_number", area_name, cat_num)>>
                      ELSE <<>>)
                  \o validate_categories(Tail(categories), area_name,
                                         used_numbers \cup {cat_num})

RECURSIVE validate_areas(_, _)
validate_areas(areas, used_ranges) ==
    IF areas = <<>> THEN <<>>
    ELSE LET area_name == Head(areas).name
             area_range == get_area_range(area_name)
             categories == validated_categories(Head(areas).data)
         IN  IF ~is_valid_area_name(area_name)
             THEN <<Violation("invalid_area_name", area_name, <<>>)>>
                  \o validate_areas(Tail(areas), used_ranges)
             ELSE (IF area_range \in used_ranges
                   THEN <<Violation("duplicate_area_range", area_name, <<>>)>>
                   ELSE <<>>)
                  \o (IF area_range \notin VALID_AREA_RANGES
                      THEN <<Violation("invalid_area_range", area_name, <<>>)>>
                      ELSE <<>>)
                  \o (IF Len(categories) > MAX_CATEGORIES_PER_AREA
                      THEN <<Violation("too_many_categories", area_name, Len(categories))>>
                      ELSE <<>>)
                  \o validate_categories(categories, area_name, {})
                  \o validate_areas(Tail(areas), used_ranges \cup {area_range})

non_system_areas(areas) == SelectSeq(areas, LAMBDA a : ~is_system_name(a.name))

validate_structure(areas) ==
    LET errors ==
            (IF Len(non_system_areas(areas)) > MAX_AREAS - 1
             THEN <<Violation("too_many_areas", <<>>, Len(non_system_areas(areas)))>>
             ELSE <<>>)
            \o validate_areas(areas, {})
    IN  [ok |-> errors = <<>>, errors |-> errors]

\* taxonomies handed to the validator
area_name_of(lo, label) ==
    format_02d(lo) \o <<"-">> \o format_02d(lo + 9) \o <<" ">> \o label
category_name_of(num, label) == format_02d(num) \o <<" ">> \o label

categories_from(lo, k) == [j \in 1..k |-> category_name_of(lo + j - 1, <<"c">>)]

CategoryShapes == { "none", "one", "ten", "eleven", "bad_name", "duplicate", "outside" }

\* category names of an area whose range starts at lo
categories_of_shape(shape, lo) ==
    CASE shape = "none" -> <<>>
      [] shape = "one" -> categories_from(lo, 1)
      [] shape = "ten" -> categories_from(lo, 10)
      [] shape = "eleven" -> categories_from(lo, 10) \o <<category_name_of(lo, <<"d">>)>>
      [] shape = "bad_name" -> << <<"x">> >>
      [] shape = "duplicate" -> <<category_name_of(lo, <<"c">>), category_name_of(lo, <<"d">>)>>
      [] shape = "outside" -> <<category_name_of(lo + 10, <<"c">>)>>

AreaShapes ==
    [name_ok : BOOLEAN, format : {"new", "legacy"}, categories : CategoryShapes]

PlainShape == [name_ok |-> TRUE, format |-> "new", categories |-> "one"]

\* the i-th user area: ranges 10-19 .. 90-99, then 10-19 again under
\* another name
user_area(i, shape) ==
    LET lo == IF i <= 9 THEN 10 * i ELSE 10
        label == IF i <= 9 THEN <<"A">> ELSE <<"Z">>
    IN  [name |-> IF shape.name_ok THEN area_name_of(lo, label)
                  ELSE <<"N", "o">> \o str(i),
         data |-> [format |-> shape.format,
                   categories |-> categories_of_shape(shape.categories, lo)]]

system_area_entry ==
    [name |-> SystemArea,
     data |-> [format |-> "new", categories |-> << <<"0", "0", " ", "I">> >>]]

taxonomy_of(n, with_system, shape1, shape2) ==
    (IF with_system THEN <<system_area_entry>> ELSE <<>>)
    \o [i \in 1..n |-> user_area(i, IF i = 1 THEN shape1
                                    ELSE IF i = 2 THEN shape2 ELSE PlainShape)]

AreaCounts == { 2, 9, 10 }

ValidatorInputs ==
    { taxonomy_of(n, s, s1, s2) :
        n \in AreaCounts, s \in BOOLEAN, s1 \in AreaShapes, s2 \in AreaShapes }

InitValidate ==
    /\ jd_ids = EmptyMap
    /\ calls = {}
    /\ issued = <<>>
    /\ last = [op |-> "none"]
    /\ request \in { [areas |-> t] : t \in ValidatorInputs }
    /\ EmptyFiles
    /\ EmptyTaxonomy

ValidateStructure ==
    /\ last.op = "none"
    /\ last' = [op |-> "validate_structure", result |-> validate_structure(request.areas)]
    /\ UNCHANGED <<jd_ids, fileVars, allocVars, request, taxVars>>

NextValidate == ValidateStructure

SpecValidate == InitValidate /\ [][NextValidate]_vars

\* ------------------------------------------------------------------------
\* Taxonomy store (JDSystem): create_from_structure, add_area, add_category
\* ------------------------------------------------------------------------
MaxOps == 3     \* taxonomy operations in one run

area_index(areas, area_name) ==
    IF \E i \in 1..Len(areas) : areas[i].name = area_name
    THEN CHOOSE i \in 1..Len(areas) : areas[i].name = area_name
    ELSE 0

history_entry(action, details) ==
    [timestamp |-> now, action |-> action, details |-> details]

\* JDSystem.save: last_modified is set first, then the file is written;
\* when the write fails the file keeps its content and save returns False
save(data, file, write_ok) ==
    LET stamped == [data EXCEPT !.meta.last_modified = now]
    IN  [ret |-> write_ok, data |-> stamped,
         file |-> IF write_ok THEN stamped ELSE file]

create_from_structure(data, file, areas, write_ok) ==
    IF ~validate_structure(areas).ok
    THEN [ret |-> FALSE, data |-> data, file |-> file]
    ELSE save([meta |-> [created_at |-> now, last_modified |-> now,
                         generation_method |-> "manual"],
               areas |-> areas,
               history |-> <<history_entry("system_created", <<>>)>>],
              file, write_ok)

\* dict assignment: a key that exists keeps its place
with_category(categories, category_name) ==
    IF has_key(categories, category_name) THEN categories
    ELSE Append(categories, category_name)

add_category(data, file, area_name, category_name, write_ok) ==
    LET i == area_index(data.areas, area_name)
    IN  IF i = 0 THEN [ret |-> FALSE, data |-> data, file |-> file]
        ELSE IF ~category_belongs_to_area(category_name, area_name)
        THEN [ret |-> FALSE, data |-> data, file |-> file]
        ELSE IF Len(data.areas[i].data.categories) >= MAX_CATEGORIES_PER_AREA
        THEN [ret |-> FALSE, data |-> data, file |-> file]
        ELSE save([data EXCEPT
                     !.areas[i].data.categories = with_category(@, category_name),
                     !.history = Append(@, history_entry("category_added",
                                                         <<area_name, category_name>>))],
                  file, write_ok)

add_area(data, file, area_name, categories, write_ok) ==
    IF ~is_valid_area_name(area_name)
    THEN [ret |-> FALSE, data |-> data, file |-> file]
    ELSE IF \E i \in 1..Len(data.areas) :
                get_area_range(data.areas[i].name) = get_area_range(area_name)
    THEN [ret |-> FALSE, data |-> data, file |-> file]
    ELSE IF Len(non_system_areas(data.areas)) >= MAX_AREAS - 1
    THEN [ret |-> FALSE, data |-> data, file |-> file]
    ELSE save([data EXCEPT
                 !.areas = Append(@, [name |-> area_name,
                                      data |-> [format |-> "new",
                                                categories |-> categories]]),
                 !.history = Append(@, history_entry("area_added", area_name))],
              file, write_ok)

TenShape == [name_ok |-> TRUE, format |-> "new", categories |-> "ten"]
BadNameShape == [name_ok |-> FALSE, format |-> "new", categories |-> "one"]

ProposedStructures ==
    { taxonomy_of(2, TRUE, TenShape, PlainShape),
      taxonomy_of(2, FALSE, BadNameShape, PlainShape),
      taxonomy_of(9, TRUE, PlainShape, PlainShape) }

ProposedAreas ==
    { area_name_of(30, <<"N">>), area_name_of(10, <<"Z">>), <<"N", "o">>,
      <<"1", "5", "-", "2", "5", " ", "X">> }

TargetAreas == { area_name_of(10, <<"A">>), area_name_of(20, <<"A">>),
                 area_name_of(40, <<"Q">>) }

ProposedCategories ==
    { category_name_of(11, <<"n">>), category_name_of(25, <<"n">>), <<"x">> }

\* one call of a JDSystem method; r is what it returned and left behind
TaxonomyCall(op, r) ==
    /\ now <= MaxOps
    /\ jd_data' = r.data
    /\ jdex_json' = r.file
    /\ now' = now + 1
    /\ last' = [op |-> op, ret |-> r.ret, data_before |-> jd_data,
                file_before |-> jdex_json]
    /\ UNCHANGED <<jd_ids, fileVars, allocVars, request>>

CreateFromStructure(areas, write_ok) ==
    \E r \in {create_from_structure(jd_data, jdex_json, areas, write_ok)} :
        TaxonomyCall("create_from_structure", r)

AddArea(area_name, write_ok) ==
    \E r \in {add_area(jd_data, jdex_json, area_name, <<>>, write_ok)} :
        TaxonomyCall("add_area", r)

AddCategory(area_name, category_name, write_ok) ==
    \E r \in {add_category(jd_data, jdex_json, area_name, category_name, write_ok)} :
        TaxonomyCall("add_category", r)

InitTaxonomy ==
    /\ jd_ids = EmptyMap
    /\ calls = {}
    /\ issued = <<>>
    /\ last = [op |-> "none"]
    /\ request = NoRequest
    /\ EmptyFiles
    /\ EmptyTaxonomy

NextTaxonomy ==
    \/ \E areas \in ProposedStructures, write_ok \in BOOLEAN :
          CreateFromStructure(areas, write_ok)
    \/ \E area_name \in ProposedAreas, write_ok \in BOOLEAN :
          AddArea(area_name, write_ok)
    \/ \E area_name \in TargetAreas, category_name \in ProposedCategories,
          write_ok \in BOOLEAN :
          AddCategory(area_name, category_name, write_ok)

SpecTaxonomy == InitTaxonomy /\ [][NextTaxonomy]_vars

\* ------------------------------------------------------------------------
\* Suggesting the next category number and adding a category with it
\* ------------------------------------------------------------------------
\* -1 stands for None
suggest_next_category_number(area_name, existing_categories) ==
    LET area_range == get_area_range(area_name)
        used_numbers == { get_category_number(existing_categories[j]) :
                            j \in 1..Len(existing_categories) } \ {-1}
        free == IF area_range = <<>> THEN {}
                ELSE { num \in area_range[1]..area_range[2] : num \notin used_numbers }
    IN  IF free = {} THEN -1
        ELSE CHOOSE num \in free : \A other \in free : num <= other

FirstArea == area_name_of(10, <<"A">>)

\* a system area, '10-19 A' with its first k numbers taken, and '20-29 A'
structure_with(k) ==
    <<system_area_entry,
      [name |-> FirstArea, data |-> [format |-> "new", categories |-> categories_from(10, k)]],
      user_area(2, PlainShape)>>

SuggestStructures == { structure_with(0), structure_with(9), structure_with(10) }

SuggestCategories ==
    { category_name_of(18, <<"d">>), category_name_of(19, <<"c">>),
      category_name_of(11, <<"c">>) }

\* ask for the next free number of an area and add a category under it
SuggestCategory(area_name) ==
    /\ now <= MaxOps
    /\ area_index(jd_data.areas, area_name) # 0
    /\ \E existing \in {jd_data.areas[area_index(jd_data.areas, area_name)].data.categories} :
       \E num \in {suggest_next_category_number(area_name, existing)} :
       \E r \in {IF num = -1 THEN [ret |-> FALSE, data |-> jd_data, file |-> jdex_json]
                 ELSE add_category(jd_data, jdex_json, area_name,
                                   category_name_of(num, <<"n">>), TRUE)} :
          /\ jd_data' = r.data
          /\ jdex_json' = r.file
          /\ last' = [op |-> "suggest", area |-> area_name, existing |-> existing,
                      suggested |-> num, accepted |-> r.ret]
    /\ now' = now + 1
    /\ UNCHANGED <<jd_ids, fileVars, allocVars, request>>

NextSuggest ==
    \/ \E areas \in SuggestStructures : CreateFromStructure(areas, TRUE)
    \/ \E category_name \in SuggestCategories : AddCategory(FirstArea, category_name, TRUE)
    \/ \E area_name \in {FirstArea, area_name_of(20, <<"A">>)} : SuggestCategory(area_name)

SpecSuggest == InitTaxonomy /\ [][NextSuggest]_vars

\* ------------------------------------------------------------------------
\* Properties of the allocator
\* ------------------------------------------------------------------------
RECURSIVE after_last_dot(_)
after_last_dot(s) ==
    IF \E i \in 1..Len(s) : s[i] = "."
    THEN after_last_dot(SubSeq(s, (CHOOSE i \in 1..Len(s) : s[i] = ".") + 1, Len(s)))
    ELSE s

RECURSIVE parse_int(_)
parse_int(s) == IF s = <<>> THEN 0
                ELSE 10 * parse_int(SubSeq(s, 1, Len(s) - 1)) + DigitValue(s[Len(s)])

seq_of(jd_id) == parse_int(after_last_dot(jd_id))

SameArgs(c1, c2) == c1.cat = c2.cat /\ c1.issuer = c2.issuer /\ c1.year = c2.year

\* C1: two get_or_create_jd_id calls with the identical category, issuer and
\* year return the same identifier whatever was allocated in between, and a
\* call repeating earlier arguments changes neither next_id nor the mappings.
AllocatorIdempotent ==
    /\ \A c1, c2 \in calls : SameArgs(c1, c2) => c1.ret = c2.ret
    /\ (last.op = "alloc" /\ last.seen) => (~last.created /\ ~last.changed)

\* C1 witness: a repeated call was answered after other identifiers of the
\* same and of another category had been issued in between.
AllocatorIdempotentWitness ==
    /\ last.op = "alloc" /\ last.seen /\ Len(issued) = 3
    /\ issued[1].id = last.ret /\ issued[1].cat = last.cat
    /\ issued[2].cat = last.cat /\ issued[3].cat # last.cat

\* C2: within one category, calls whose (issuer, year) pairs differ in the
\* issuer or in the year return different identifiers, for all strings.
AllocatorDistinct ==
    \A c1, c2 \in calls :
        (c1.cat = c2.cat /\ (c1.issuer # c2.issuer \/ c1.year # c2.year))
            => c1.ret # c2.ret

\* C3: within one category newly issued identifiers carry strictly
\* increasing sequence numbers in issuance order, a fresh category starts at
\* '<category number>.01', next_id exceeds every sequence number in the
\* mappings, and no identifier is held by or issued to two different keys.
AllocatorMonotonic ==
    /\ \A i, j \in 1..Len(issued) :
          (i < j /\ issued[i].cat = issued[j].cat)
              => /\ seq_of(issued[i].id) < seq_of(issued[j].id)
                 /\ issued[i].id # issued[j].id
                 /\ issued[i].key # issued[j].key
    /\ \A cat \in DOMAIN jd_ids :
          LET m == jd_ids[cat].mappings
          IN  /\ \A k \in DOMAIN m : seq_of(m[k]) < jd_ids[cat].next_id
              /\ \A k1, k2 \in DOMAIN m : k1 # k2 => m[k1] # m[k2]
              /\ {m[k] : k \in DOMAIN m} =
                    {split_0(cat) \o <<".">> \o format_02d(n) :
                        n \in 1..(jd_ids[cat].next_id - 1)}
              /\ jd_ids[cat].next_id >= 1

\* C3 witness: a fresh category has issued .01 and .02, and a category
\* reloaded with eight earlier identifiers has passed from .09 to .10.
AllocatorMonotonicWitness ==
    /\ Len(issued) = 3
    /\ \E i, j \in 1..3 :
          /\ i < j /\ issued[i].cat = <<"1", "4", " ", "R">>
          /\ issued[j].cat = issued[i].cat
          /\ issued[i].id = <<"1", "4", ".", "0", "9">>
          /\ issued[j].id = <<"1", "4", ".", "1", "0">>
    /\ \E i \in 1..3 : issued[i].id = <<"2", "1", ".", "0", "1">>

\* ------------------------------------------------------------------------
\* Properties of the ingest loop and the organizer
\* ------------------------------------------------------------------------
Range(f) == { f[x] : x \in DOMAIN f }

Copies(c) == { p \in DOMAIN library : library[p] = c }

Organizing == last.op \in {"ingest", "files_move"} /\ last.outcome = "organized"

\* C4: the content of every file that was put into the inbox (and that the
\* user did not delete) is in the library, in _failed or in the inbox.
NoDocumentDropped ==
    \A c \in placed : c \in Range(inbox) \cup Range(library) \cup Range(failed)

\* C5: when a file is ingested whose content is already organized in the
\* library, the library keeps exactly one copy of that content, the file is
\* removed from the inbox, and no identifier, sidecar or search-index entry is
\* created; no content ever has two library copies or two sidecars.
DuplicateIngestion ==
    /\ \A c \in Contents :
          /\ Cardinality(Copies(c)) <= 1
          /\ Cardinality({ p \in DOMAIN sidecars :
                             sidecars[p].extracted_text = extracted_text_of(c) }) <= 1
    /\ (last.op = "ingest" /\ last.in_library)
          => /\ last.outcome \in {"ledger_hit", "duplicate"}
             /\ last.name \notin DOMAIN inbox
             /\ last.same
             /\ Cardinality(Copies(last.content)) = 1

\* C5 witness: the second copy was caught by the duplicate index (the run
\* that organized the first copy was interrupted before it saved the ledger).
DuplicateIngestionWitness ==
    /\ last.op = "ingest" /\ last.in_library /\ last.outcome = "duplicate"
    /\ Cardinality(Copies(last.content)) = 1
    /\ Len(search_index) = 1

\* C6: organize_file, called on a source whose content hash is in the
\* duplicate index with an existing path, fails and changes nothing.
OrganizerRejectsDuplicate ==
    (last.op \in {"ingest", "files_move"} /\ last.in_index)
        => (last.outcome # "organized" /\ last.same)

\* C7: a process_once that immediately follows a completed process_once, with
\* nothing put into the inbox and nothing moved or deleted by the user since
\* the first one started, changes no library file, sidecar, allocator entry,
\* hash-index entry, search-index entry or ledger entry.
IngestOnceIdempotent ==
    quiet.on => Persistent = quiet.snap

\* C7 witness: the second process_once has completed on a library that holds
\* an organized document and a quarantined one.
IngestOnceIdempotentWitness ==
    /\ quiet.on /\ quiet.passes = 2
    /\ library # EmptyMap /\ failed # EmptyMap /\ processed_db # EmptyMap
    /\ last.op = "finish_once"

valid_pair(r, jd_areas) ==
    /\ r.kind = "result"
    /\ \E i \in 1..Len(jd_areas) :
          /\ jd_areas[i].area = r.jd_area
          /\ \E j \in 1..Len(jd_areas[i].categories) :
                jd_areas[i].categories[j].category = r.jd_category

\* C9: with fallback_to_keywords on, categorize_document returns a
\* categorization result for every provider choice and taxonomy: it neither
\* raises nor returns None.
CategorizeNeverFails ==
    (last.op = "categorize_document" /\ request.fallback_to_keywords)
        => last.result.kind = "result"

\* C10: for every taxonomy and text, categorize_with_keywords and
\* KeywordProvider.categorize each return an area/category pair that exists
\* in the taxonomy they were given.
KeywordBackendValid ==
    last.op = "keyword_backends"
        => /\ valid_pair(last.legacy, request.jd_areas)
           /\ valid_pair(last.provider, request.jd_areas)

rule_scores == all_scores(request.jd_areas, lower(request.text), FALSE)

obeys_scoring_rule(r) ==
    /\ r.kind = "result"
    /\ max_score(rule_scores) > 0
          => /\ r.jd_area = first_best(rule_scores).jd_area
             /\ r.jd_category = first_best(rule_scores).jd_category
             /\ r.confidence = IF max_score(rule_scores) >= 2 THEN "medium" ELSE "low"

\* C16: both keyword backends pick the first category with the highest count
\* of keywords found in the lower-cased text, report confidence 'medium' when
\* that count is at least 2 and 'low' otherwise, and agree on area, category
\* and confidence (the fixed default included) for the same text and taxonomy.
KeywordScoringRule ==
    last.op = "keyword_backends"
        => /\ obeys_scoring_rule(last.legacy)
           /\ obeys_scoring_rule(last.provider)
           /\ last.legacy = last.provider

selected_backend == get_provider(request.provider, request.env, request.available)

backend_result == provider_categorize(selected_backend.name, request)

backend_failed == selected_backend.raised \/ backend_result.kind # "result"

\* C18: when the selected backend is unavailable or fails, categorize_document
\* returns what the keyword backend gives for the same text and taxonomy if
\* fallback_to_keywords is on and None if it is off; when the selected
\* backend succeeds, its result is returned unchanged and the keyword
\* fallback does not run.
FallbackResult ==
    last.op = "categorize_document"
        => /\ (backend_failed /\ request.fallback_to_keywords)
                 => last.result = KeywordProvider_categorize(request.text, request.jd_areas)
           /\ (backend_failed /\ ~request.fallback_to_keywords)
                 => last.result = NoneResult
           /\ ~backend_failed
                 => (last.result = backend_result /\ ~last.fallback)

FallbackResultWitness ==
    /\ last.op = "categorize_document"
    /\ backend_failed
    /\ selected_backend.name = Anthropic
    /\ request.fallback_to_keywords
    /\ last.fallback
    /\ last.result.kind = "result"

\* ------------------------------------------------------------------------
\* Properties of the taxonomy validator
\* ------------------------------------------------------------------------
reported(kind, area) ==
    \E i \in 1..Len(last.result.errors) :
        last.result.errors[i].kind = kind /\ last.result.errors[i].area = area

\* C11: a taxonomy with more than 9 non-system areas is rejected with a
\* violation about the area count, and an area holding more than 10
\* categories, in the new or the legacy format, is rejected with a violation
\* about the category count of that area.
ValidatorSound ==
    last.op = "validate_structure" =>
        /\ Len(non_system_areas(request.areas)) > 9
              => (~last.result.ok /\ reported("too_many_areas", <<>>))
        /\ \A i \in 1..Len(request.areas) :
              Len(request.areas[i].data.categories) > 10
                  => /\ ~last.result.ok
                     /\ reported("too_many_categories", request.areas[i].name)

has_duplicate_number(categories) ==
    \E i, j \in 1..Len(categories) :
        /\ i < j
        /\ is_valid_category_name(categories[i])
        /\ is_valid_category_name(categories[j])
        /\ get_category_number(categories[i]) = get_category_number(categories[j])

\* C12: every violation present is reported in one call: for every area,
\* whether or not its own name is valid and whatever the other areas hold,
\* an invalid area name, an invalid category name, a category count above 10
\* and a duplicate category number are each reported for that area.
ValidatorReportsAll ==
    last.op = "validate_structure" =>
        \A i \in 1..Len(request.areas) :
            LET a == request.areas[i]
            IN  a.data.format = "new" =>
                /\ ~is_valid_area_name(a.name) => reported("invalid_area_name", a.name)
                /\ (\E j \in 1..Len(a.data.categories) :
                        ~is_valid_category_name(a.data.categories[j]))
                      => reported("invalid_category_name", a.name)
                /\ Len(a.data.categories) > 10 => reported("too_many_categories", a.name)
                /\ has_duplicate_number(a.data.categories)
                      => reported("duplicate_category_number", a.name)

\* ------------------------------------------------------------------------
\* Properties of the taxonomy store
\* ------------------------------------------------------------------------
TaxonomyOps == {"create_from_structure", "add_area", "add_category"}

\* C13: when create_from_structure, add_area or add_category returns False,
\* the in-memory taxonomy, metadata and history and the persisted jdex.json
\* are exactly as before the call.
TaxonomyAllOrNothing ==
    (last.op \in TaxonomyOps /\ ~last.ret)
        => (jd_data = last.data_before /\ jdex_json = last.file_before)

\* ------------------------------------------------------------------------
\* Properties of the duplicate index
\* ------------------------------------------------------------------------
indexed_hashes ==
    { get_file_hash(content_at(library, failed, p)) : p \in walked_files(library, failed) }

NoStaleEntries ==
    /\ (last.op = "ingest" /\ last.stale /\ last.outcome # "ledger_hit")
          => /\ last.outcome # "duplicate"
             /\ last.hash \in DOMAIN hash_index
                   => hash_index[last.hash] \in existing_paths(library, failed)
    /\ last.op = "build_hash_index"
          => \A h \in DOMAIN hash_index :
                hash_index[h] \in existing_paths(library, failed)

\* ------------------------------------------------------------------------
\* Properties of the file name
\* ------------------------------------------------------------------------
\* C17: the file name of an organized document is
\* '<id> <descriptor> <year><extension>': it starts with the identifier,
\* contains the issuer, contains the year of the allocation key, ends with
\* the original extension, and its descriptor is the descriptor that keyed
\* the identifier allocation.
FilenameShape ==
    last.op = "name_document"
        => /\ last.new_name = last.jd_id \o <<" ">> \o last.folder_descriptor
                                \o <<" ">> \o last.year
                                \o path_suffix(request.original_name)
           /\ contains(last.new_name, request.analysis.issuer)
           /\ last.key = allocation_key(last.folder_descriptor, last.year)

\* ------------------------------------------------------------------------
\* Properties of organize_file under failures
\* ------------------------------------------------------------------------
\* C19: when organize_file fails at any point up to and including the move,
\* .jd_ids.json, .hash_index.json, .search_index.json, the library tree and
\* the source file are exactly as they were before the call.
PreMoveFailureChangesNothing ==
    (last.op = "organize_fails" /\ ~last.moved)
        => /\ jd_ids = last.before.jd_ids
           /\ hash_index = last.before.hash_index
           /\ search_index = last.before.search_index
           /\ library = last.before.library
           /\ last.name \in DOMAIN inbox /\ inbox[last.name] = last.content

\* C20: when a write fails after the file has been moved, organize_file
\* still returns the destination, the ingest loop records the hash of the
\* document in the ledger, and the moved file stays in the library.
PostMoveFailureNonFatal ==
    (last.op = "organize_fails" /\ last.moved)
        => /\ last.returned
           /\ last.hash \in DOMAIN processed_db \cup DOMAIN loop.processed
           /\ last.destination \in DOMAIN library
           /\ library[last.destination] = last.content

has_search_entry(path) ==
    \E i \in 1..Len(search_index) : search_index[i].file_path = path

\* C21: organize_file computes the content hash before it allocates an
\* identifier, moves the file before it writes the sidecar, writes the
\* sidecar before the search-index entry and inserts the duplicate-index
\* entry last: wherever the call is interrupted, a run that stopped at the
\* hash has allocated nothing, and a duplicate-index entry for the new hash
\* implies that the file, its sidecar and its search-index entry exist.
OrganizerStepOrder ==
    last.op = "organize_fails"
        => /\ last.fail_at = "hash" => jd_ids = last.before.jd_ids
           /\ has_search_entry(last.destination) => last.destination \in DOMAIN sidecars
           /\ last.destination \in DOMAIN sidecars => last.destination \in DOMAIN library
           /\ (last.hash \in DOMAIN hash_index /\ hash_index[last.hash] = last.destination)
                 => /\ last.destination \in DOMAIN library
                    /\ last.destination \in DOMAIN sidecars
                    /\ has_search_entry(last.destination)

\* ------------------------------------------------------------------------
\* Properties of the allocator under crashes and concurrent writers
\* ------------------------------------------------------------------------
\* C22: get_or_create_jd_id returns a new identifier only after the state
\* holding the new mapping and the incremented next_id is in .jd_ids.json,
\* and wherever an allocation crashes, a later allocation for a key never
\* yields an identifier different from one already returned for that key.
PersistenceBeforeUse ==
    /\ (last.op = "alloc_return" /\ last.created)
          => /\ last.cat \in DOMAIN last.file
             /\ allocation_key(last.issuer, last.year) \in DOMAIN last.file[last.cat].mappings
             /\ last.file[last.cat].mappings[allocation_key(last.issuer, last.year)] = last.ret
             /\ last.file[last.cat].next_id > seq_of(last.ret)
    /\ \A c1, c2 \in calls : SameArgs(c1, c2) => c1.ret = c2.ret

same_id_for_two_keys ==
    \E i, j \in 1..Len(issued) :
        /\ issued[i].cat = issued[j].cat
        /\ issued[i].key # issued[j].key
        /\ issued[i].id = issued[j].id

issued_mapping_lost ==
    /\ \A w \in Writers : request.procs[w].pc = "idle"
    /\ \E i \in 1..Len(issued) :
          \/ issued[i].cat \notin DOMAIN jd_ids
          \/ issued[i].key \notin DOMAIN jd_ids[issued[i].cat].mappings

\* C29: two processes that interleave their load-modify-save of
\* .jd_ids.json can reach a state where two keys of one category hold the
\* same identifier or an issued mapping is lost; as long as no allocation
\* started while another one was in progress, no such state is reached.
RaceCorrupts ==
    (same_id_for_two_keys \/ issued_mapping_lost) => request.overlap

RaceCorruptsWitness ==
    /\ request.overlap
    /\ same_id_for_two_keys
    /\ issued_mapping_lost

\* ------------------------------------------------------------------------
\* Properties of the ingest loop: quarantine and ledger hits
\* ------------------------------------------------------------------------
\* C23: when no text can be extracted, process_file moves the file with
\* unchanged bytes into _failed and reports a failure, allocates no
\* identifier, writes no sidecar and no index entry, and the ingest loop
\* does not add the hash of the file to the ledger.
ExtractionFailureQuarantine ==
    (last.op = "ingest" /\ last.outcome = "failed")
        => /\ last.name \in DOMAIN failed /\ failed[last.name] = last.content
           /\ last.name \notin DOMAIN inbox
           /\ last.destination = NoPath
           /\ last.same
           /\ last.hash \notin DOMAIN hash_index
           /\ last.hash \notin DOMAIN loop.processed \cup DOMAIN processed_db

ExtractionFailureQuarantineWitness ==
    /\ last.op = "ingest" /\ last.outcome = "failed"
    /\ DOMAIN library # {}
    /\ search_index # <<>>
    /\ loop.processed # EmptyMap

\* C24: for an inbox file whose content hash is already a key of the
\* processed ledger, the ingest loop deletes the inbox copy and calls neither
\* extraction, categorization nor organize_file; the allocator state, the
\* duplicate index, the search index, the library and the ledger stay as
\* they were.
LedgerHitSkips ==
    (last.op = "ingest" /\ last.known)
        => /\ last.outcome = "ledger_hit"
           /\ last.name \notin DOMAIN inbox
           /\ last.destination = NoPath
           /\ last.same
           /\ last.kept

LedgerHitSkipsWitness ==
    /\ last.op = "ingest" /\ last.known
    /\ last.hash \in DOMAIN hash_index
    /\ hash_index[last.hash] \notin DOMAIN library
    /\ loop.driver = "watch"

\* ------------------------------------------------------------------------
\* Properties of the category number suggestion
\* ------------------------------------------------------------------------
used_in(existing) == { get_category_number(existing[j]) : j \in 1..Len(existing) }

\* C25: suggest_next_category_number returns the smallest number of the
\* area's range that no existing category carries, and None exactly when
\* every number of the range is used; a category added with the suggested
\* number is accepted by add_category whenever a number is suggested.
SuggestNextFree ==
    last.op = "suggest"
        => LET range == get_area_range(last.area)
               free == { n \in range[1]..range[2] : n \notin used_in(last.existing) }
           IN  /\ last.suggested = -1 <=> free = {}
               /\ last.suggested # -1
                     => /\ last.suggested \in free
                        /\ \A n \in free : last.suggested <= n
                        /\ last.accepted

first_available(available) ==
    IF ClaudeCode \in available THEN ClaudeCode
    ELSE IF Anthropic \in available THEN Anthropic
    ELSE IF OpenAI \in available THEN OpenAI
    ELSE IF Bedrock \in available THEN Bedrock
    ELSE IF Ollama \in available THEN Ollama
    ELSE Keywords

\* an explicit caller choice wins over the configured preference
ExplicitChoiceWins ==
    (last.op = "select_backend" /\ request.provider \in PROVIDERS)
        => (~last.provider.raised /\ last.provider.name = request.provider)

\* the configured preference wins over auto-detection
ConfiguredPreferenceWins ==
    last.op = "select_backend"
        => /\ (request.provider = None /\ request.env # <<>>)
                  => last.provider.name = lower(request.env)
           /\ last.setting # Auto => last.effective = last.setting

\* auto-detection returns the first available backend of the fixed order
AutoDetectOrder ==
    last.op = "select_backend"
        => /\ last.auto.name = first_available(request.available)
           /\ (request.provider = None /\ request.env = <<>>)
                  => last.provider = last.auto

\* C27: an explicit caller choice wins over the configured preference, which
\* wins over auto-detection; auto-detection returns the first available
\* backend in the order subscription CLI, cloud API with key, local model,
\* keyword backend; and get_provider and Settings.get_effective_provider
\* auto-detect the same backend when the same backends are available.
BackendSelectionPrecedence ==
    /\ ExplicitChoiceWins
    /\ ConfiguredPreferenceWins
    /\ AutoDetectOrder
    /\ (last.op = "select_backend" /\ last.setting = Auto)
           => last.effective = last.auto.name

\* every area of before is still in after, with its categories in place
definitions_kept(before, after) ==
    \A i \in 1..Len(before) :
        /\ i <= Len(after)
        /\ after[i].name = before[i].name
        /\ after[i].data.format = before[i].data.format
        /\ Len(after[i].data.categories) >= Len(before[i].data.categories)
        /\ SubSeq(after[i].data.categories, 1, Len(before[i].data.categories))
              = before[i].data.categories

\* C28: when the taxonomy is accepted by validate_structure, a successful
\* add_area or add_category leaves a taxonomy that validate_structure still
\* accepts, and every area and category that existed before is still there.
AdditiveMutationKeepsValid ==
    (/\ last.op \in {"add_area", "add_category"}
     /\ last.ret
     /\ validate_structure(last.data_before.areas).ok)
        => /\ validate_structure(jd_data.areas).ok
           /\ definitions_kept(last.data_before.areas, jd_data.areas)

AdditiveMutationKeepsDefinitions ==
    (last.op \in {"add_area", "add_category"} /\ last.ret)
        => definitions_kept(last.data_before.areas, jd_data.areas)

\* a step in which organize_file placed a document in the library
organized_step ==
    /\ last'.op \in {"ingest", "files_move"}
    /\ last'.outcome = "organized"
    /\ last'.destination \in DOMAIN library' \ DOMAIN library

\* the index after the step is the index before it plus one entry at the end
one_entry_appended ==
    /\ Len(search_index') = Len(search_index) + 1
    /\ SubSeq(search_index', 1, Len(search_index)) = search_index
    /\ search_index'[Len(search_index')].file_path = last'.destination
    /\ search_index'[Len(search_index')].original_filename = last'.name

\* an organize_file that stopped part-way added at most its own entry
entries_kept ==
    /\ Len(search_index') \in {Len(search_index), Len(search_index) + 1}
    /\ SubSeq(search_index', 1, Len(search_index)) = search_index

\* C30: the search index is append-only: a successful organize_file appends
\* exactly one entry at the end of .search_index.json, and every other step
\* (rejected or failed ingest, rebuild of the duplicate index, deletion or
\* relocation of a file) leaves the index as it is; entries already in the
\* index are never modified, reordered or removed, so organizing the same
\* document again adds a second entry.
SearchIndexAppendOnly ==
    [][IF organized_step THEN one_entry_appended
       ELSE IF last'.op = "organize_fails" THEN entries_kept
       ELSE search_index' = search_index]_vars

\* the same document was organized twice and has two entries
SearchIndexAppendOnlyWitness ==
    /\ last.op = "ingest"
    /\ last.outcome = "organized"
    /\ Len(search_index) = 2
    /\ search_index[1].original_filename = search_index[2].original_filename
    /\ search_index[1].extracted_text = search_index[2].extracted_text
    /\ search_index[2].file_path = last.destination

====
